---- MODULE Spec2Model ----
(***************************************************************************)
(* Model of the papercomputeco/daggerverse modules:                        *)
(*   utils.FlattenNameOsArch   (os/arch/filename -> filename-os-arch)      *)
(*   bucketupload.buildMetadataIndex and Bucketuploader.upload             *)
(*   ghrelease.WithFlatten / WithTag / Upload                              *)
(*   golangcilint.Lint / Check and checksum.Checksum                       *)
(* Strings are sequences of one-character strings so that the prefix,      *)
(* suffix and split operations of the Go code are computed, not assumed.   *)
(***************************************************************************)
EXTENDS Integers, Sequences, FiniteSets, TLC

VARIABLES
    \* ---- utils.FlattenNameOsArch ----
    build,      \* the input directory: sequence of files [segs, bytes], listing order
    fpc,        \* position in FlattenNameOsArch: "start", "loop", "done"
    entries,    \* result of build.Glob("*/*/*")
    fi,         \* index of the next entry of the range loop
    dist,       \* the directory under construction: set of [name, bytes]
    ferr        \* error returned by FlattenNameOsArch ("" is nil)

flVars == <<build, fpc, entries, fi, dist, ferr>>

VARIABLES
    \* ---- bucketupload.buildMetadataIndex ----
    metadata,   \* the []FilePathMetadata argument
    ipc,        \* position in buildMetadataIndex: "make", "loop", "done"
    ii,         \* index of the next element of the range loop
    idx         \* the metadataIndex under construction: key -> FileMetadata

ixVars == <<metadata, ipc, ii, idx>>

VARIABLES
    \* ---- bucketupload: UploadTree / UploadLatest / UploadNightly, upload ----
    caller,     \* the exported function that was called
    callNo,     \* which upload call of the caller is running (1 or 2)
    artifacts,  \* the artifacts directory: sequence of files [segs, bytes]
    prefix,     \* the prefix argument of the running upload call
    upc,        \* position in upload and its caller
    uentries,   \* result of artifacts.Glob("**/*")
    ui,         \* index of the next entry of the range loop
    awsCli,     \* the commands chained on the container by WithExec
    xi,         \* index of the next chained command that Sync executes
    issued,     \* log of the external invocations made, with their outcome
    bucket,     \* the objects the external tool has stored
    uerr,       \* error returned by upload ("" is nil)
    result      \* error returned by the caller (<<>> is nil)

upVars == <<caller, callNo, artifacts, prefix, upc, uentries, ui, awsCli, xi,
            issued, bucket, uerr, result>>

VARIABLES
    \* ---- ghrelease: New / WithFlatten / WithTag / Upload ----
    Token,      \* Ghrelease.Token
    Repo,       \* Ghrelease.Repo
    Assets,     \* Ghrelease.Assets: sequence of files [segs, bytes]
    DoFlatten,  \* Ghrelease.DoFlatten
    Tag,        \* Ghrelease.Tag
    gpc,        \* position: "chain" (after New), "glob", "exec", "done"
    chained,    \* the With... calls made on the instance, in order
    gdist,      \* the directory Upload works on
    flattened,  \* whether Upload called FlattenNameOsArch
    listings,   \* number of directory listings Upload asked for
    gentries,   \* result of dist.Glob("*")
    released,   \* log of the release upload invocations, with their outcome
    gerr        \* error returned by Upload ("" is nil)

ghVars == <<Token, Repo, Assets, DoFlatten, Tag, gpc, chained, gdist,
            flattened, listings, gentries, released, gerr>>

VARIABLES
    \* ---- golangcilint: New / Lint / Check, lintContainer ----
    EnvVars,    \* Golangcilint.EnvVars: sequence of strings
    lop,        \* the exported function that was called: "Lint" or "Check"
    lpc,        \* position: "env" (the loop of lintContainer), "done"
    li,         \* index of the next element of the range loop
    ctrEnv,     \* the environment of the container under construction
    lexec,      \* the WithExec calls made, each with the container's environment
    lret,       \* the value returned: "nil"/"dir" (Lint), ""/"stdout" (Check)
    lerr        \* error returned (<<>> is nil)

glVars == <<EnvVars, lop, lpc, li, ctrEnv, lexec, lret, lerr>>

VARIABLES
    \* ---- checksum: Checksumer.Checksum ----
    cdir,       \* the input directory: sequence of files [segs, bytes]
    cpc,        \* position in the script: "find", "loop", "done"
    cfound,     \* the lines find printed
    ci,         \* index of the next line the while loop reads
    cout        \* /artifacts: path -> contents

ckVars == <<cdir, cpc, cfound, ci, cout>>

VARIABLES
    \* ---- a caller that runs the same upload again ----
    rkind,      \* "bucket" (Bucketuploader.upload) or "release" (Ghrelease.Upload)
    rdir,       \* the artifact tree
    rname,      \* the prefix, or the tag
    rmeta,      \* the metadata list (bucket)
    rflat,      \* DoFlatten (release)
    rstore,     \* the destination: the objects or release assets stored
    rfirst,     \* the destination as the first run left it
    runs        \* number of runs that have succeeded

rrVars == <<rkind, rdir, rname, rmeta, rflat, rstore, rfirst, runs>>

vars == <<flVars, ixVars, upVars, ghVars, glVars, ckVars, rrVars>>

(***************************************************************************)
(* Strings                                                                 *)
(***************************************************************************)
Sha256Suffix == <<".", "s", "h", "a", "2", "5", "6">>
DotSlash == <<".", "/">>
Slash == <<"/">>
Dash == <<"-">>

\* strings.HasPrefix
HasPrefix(s, p) ==
    /\ Len(s) >= Len(p)
    /\ SubSeq(s, 1, Len(p)) = p

\* strings.HasSuffix
HasSuffix(s, suffix) ==
    /\ Len(s) >= Len(suffix)
    /\ SubSeq(s, Len(s) - Len(suffix) + 1, Len(s)) = suffix

\* strings.TrimPrefix: s without the leading p, or s itself
TrimPrefix(s, p) ==
    IF HasPrefix(s, p) THEN SubSeq(s, Len(p) + 1, Len(s)) ELSE s

\* strings.TrimSuffix: s without the trailing suffix, or s itself
TrimSuffix(s, suffix) ==
    IF HasSuffix(s, suffix) THEN SubSeq(s, 1, Len(s) - Len(suffix)) ELSE s

\* index of the first "/" of s, 0 if there is none
RECURSIVE IndexSlash(_, _)
IndexSlash(s, k) ==
    IF k > Len(s) THEN 0
    ELSE IF s[k] = "/" THEN k
    ELSE IndexSlash(s, k + 1)

\* strings.SplitN(s, "/", n) for n >= 1: at most n substrings, the last one
\* being the unsplit remainder
RECURSIVE SplitN(_, _)
SplitN(s, n) ==
    LET k == IndexSlash(s, 1) IN
    IF n = 1 \/ k = 0 THEN <<s>>
    ELSE <<SubSeq(s, 1, k - 1)>> \o SplitN(SubSeq(s, k + 1, Len(s)), n - 1)

\* number of "/"-separated segments of a path
RECURSIVE NumSegments(_)
NumSegments(s) ==
    LET k == IndexSlash(s, 1) IN
    IF k = 0 THEN 1 ELSE 1 + NumSegments(SubSeq(s, k + 1, Len(s)))

\* the path string of a file given by its segments
RECURSIVE JoinPath(_)
JoinPath(segs) ==
    IF Len(segs) = 1 THEN segs[1]
    ELSE segs[1] \o Slash \o JoinPath(Tail(segs))

(***************************************************************************)
(* Dagger directory operations used by the modules                         *)
(***************************************************************************)
\* the relative paths of the files of a directory, in listing order
RECURSIVE Paths(_)
Paths(dir) ==
    IF dir = <<>> THEN <<>>
    ELSE <<JoinPath(Head(dir).segs)>> \o Paths(Tail(dir))

IsDepth3(p) == NumSegments(p) = 3

IsDepth3OrMore(p) == NumSegments(p) >= 3

\* a listing whose "*" would also match across "/" (deeper paths included)
GlobStar3OrDeeper(dir) == SelectSeq(Paths(dir), IsDepth3OrMore)

\* build.Glob(ctx, "*/*/*"): "*" matches within one path segment only, so
\* the pattern selects the paths that have exactly three segments. A
\* directory is modelled by its files: the listing holds file paths only.
GlobStar3(dir) == SelectSeq(Paths(dir), IsDepth3)

\* build.File(entry): the contents of the file at that path
File(dir, entry) ==
    LET k == CHOOSE k \in 1..Len(dir) : JoinPath(dir[k].segs) = entry
    IN dir[k].bytes

\* dist.WithFile(newName, file): the file is written at newName, replacing
\* whatever the directory held under that name
WithFile(d, name, bytes) ==
    {e \in d : e.name # name} \cup {[name |-> name, bytes |-> bytes]}

(***************************************************************************)
(* The modules are independent programs: a run of one leaves the           *)
(* variables of the others at these values.                                *)
(***************************************************************************)
IdleFlatten ==
    /\ build = <<>>
    /\ fpc = "idle"
    /\ entries = <<>>
    /\ fi = 1
    /\ dist = {}
    /\ ferr = ""

IdleIndex ==
    /\ metadata = <<>>
    /\ ipc = "idle"
    /\ ii = 1
    /\ idx = <<>>

IdleUpload ==
    /\ caller = "none"
    /\ callNo = 1
    /\ artifacts = <<>>
    /\ prefix = ""
    /\ upc = "idle"
    /\ uentries = <<>>
    /\ ui = 1
    /\ awsCli = <<>>
    /\ xi = 1
    /\ issued = <<>>
    /\ bucket = {}
    /\ uerr = ""
    /\ result = <<>>

IdleGhrelease ==
    /\ Token = "none"
    /\ Repo = ""
    /\ Assets = <<>>
    /\ DoFlatten = FALSE
    /\ Tag = ""
    /\ gpc = "idle"
    /\ chained = <<>>
    /\ gdist = <<>>
    /\ flattened = FALSE
    /\ listings = 0
    /\ gentries = <<>>
    /\ released = <<>>
    /\ gerr = ""

IdleLint ==
    /\ EnvVars = <<>>
    /\ lop = "none"
    /\ lpc = "idle"
    /\ li = 1
    /\ ctrEnv = <<>>
    /\ lexec = <<>>
    /\ lret = "nil"
    /\ lerr = <<>>

IdleChecksum ==
    /\ cdir = <<>>
    /\ cpc = "idle"
    /\ cfound = <<>>
    /\ ci = 1
    /\ cout = <<>>

IdleRerun ==
    /\ rkind = "none"
    /\ rdir = <<>>
    /\ rname = ""
    /\ rmeta = <<>>
    /\ rflat = FALSE
    /\ rstore = {}
    /\ rfirst = {}
    /\ runs = 0

(***************************************************************************)
(* utils.FlattenNameOsArch                                                 *)
(***************************************************************************)
MaxFiles == 3

Contents == {"b1", "b2"}

\* candidate files of a build directory, as path segments
BuildPool ==
    { << <<"a">>, <<"b", "-", "c">>, <<"x">> >>,
      << <<"a", "-", "b">>, <<"c">>, <<"x">> >>,
      << <<"a">>, <<"c">>, <<"x">> \o Sha256Suffix >>,
      << <<"a">>, <<"c">>, Sha256Suffix >>,
      << <<"a">>, <<"c">>, <<"x">> \o Sha256Suffix \o Sha256Suffix >>,
      << <<"a">>, <<"c">>, <<"x", ".", "s", "h", "a", "2", "5">> >>,
      << <<"x">> >>,
      << <<"a">>, <<"x">> >>,
      << <<"a">>, <<"c">>, <<"d">>, <<"x">> >> }

\* directories of at most MaxFiles files with pairwise distinct paths
Dirs ==
    UNION { { d \in [1..n -> [segs : BuildPool, bytes : Contents]] :
                \A i, j \in 1..n : i # j => d[i].segs # d[j].segs }
            : n \in 0..MaxFiles }

\* a renaming that forgets the checksum rule
NewNameNoSha256(filename, os, arch) ==
    filename \o Dash \o os \o Dash \o arch

\* the new name of <os>/<arch>/<filename>
NewName(filename, os, arch) ==
    IF HasSuffix(filename, Sha256Suffix)
    THEN TrimSuffix(filename, Sha256Suffix) \o Dash \o os \o Dash \o arch
             \o Sha256Suffix
    ELSE filename \o Dash \o os \o Dash \o arch

\* an iteration that keeps the file already written under the new name
FlattenEntryKeepFirst(d, dir, entry) ==
    LET parts == SplitN(entry, 3)
        newName == NewName(parts[3], parts[1], parts[2])
    IN
    IF Len(parts) # 3 THEN d
    ELSE IF \E e \in d : e.name = newName THEN d
    ELSE WithFile(d, newName, File(dir, entry))

\* one iteration of the range loop over entries
FlattenEntry(d, dir, entry) ==
    LET parts == SplitN(entry, 3) IN
    IF Len(parts) # 3 THEN d
    ELSE WithFile(d, NewName(parts[3], parts[1], parts[2]), File(dir, entry))

\* the variables of the other modules, which a flatten run leaves alone
OtherThanFlatten == <<ixVars, upVars, ghVars, glVars, ckVars, rrVars>>

InitFlatten ==
    /\ IdleLint
    /\ IdleChecksum
    /\ IdleRerun
    /\ IdleGhrelease
    /\ IdleIndex
    /\ IdleUpload
    /\ build \in Dirs
    /\ fpc = "start"
    /\ entries = <<>>
    /\ fi = 1
    /\ dist = {}
    /\ ferr = ""

\* entries, err := build.Glob(ctx, "*/*/*") succeeds; dist := dag.Directory()
FlattenGlob ==
    /\ fpc = "start"
    /\ entries' = GlobStar3(build)
    /\ dist' = {}
    /\ fi' = 1
    /\ fpc' = "loop"
    /\ UNCHANGED <<build, ferr>>
    /\ UNCHANGED OtherThanFlatten

\* the listing fails: return nil, "failed to list build artifacts"
FlattenGlobFails ==
    /\ fpc = "start"
    /\ ferr' = "failed to list build artifacts"
    /\ fpc' = "done"
    /\ UNCHANGED <<build, entries, fi, dist>>
    /\ UNCHANGED OtherThanFlatten

\* for _, entry := range entries { ... }
FlattenLoop ==
    /\ fpc = "loop"
    /\ fi <= Len(entries)
    /\ dist' = FlattenEntry(dist, build, entries[fi])
    /\ fi' = fi + 1
    /\ UNCHANGED <<build, fpc, entries, ferr>>
    /\ UNCHANGED OtherThanFlatten

\* return dist, nil
FlattenReturn ==
    /\ fpc = "loop"
    /\ fi > Len(entries)
    /\ fpc' = "done"
    /\ UNCHANGED <<build, entries, fi, dist, ferr>>
    /\ UNCHANGED OtherThanFlatten

NextFlatten ==
    \/ FlattenGlob
    \/ FlattenGlobFails
    \/ FlattenLoop
    \/ FlattenReturn

SpecFlatten == InitFlatten /\ [][NextFlatten]_vars

(***************************************************************************)
(* bucketupload.buildMetadataIndex                                         *)
(***************************************************************************)
MaxMeta == 2

\* FileMetadata values: each header is set or left empty
FileMetadatas ==
    [ChecksumSHA256 : {"", "c2hhMjU2"}, ContentType : {"", "text/plain"}]

BinApp == <<"b", "i", "n", "/", "a", "p", "p">>

\* candidate Path fields of a FilePathMetadata
MetaPaths ==
    { BinApp,
      <<".", "/">> \o BinApp,
      <<"/">> \o BinApp,
      <<"a">>,
      <<".", "/", "/", "a">>,
      <<"/", "/", "a">>,
      <<".", "/", ".", "/", "a">>,
      <<"/", ".", "/", "a">>,
      <<".", ".", "/", "a">> }

MetadataLists ==
    UNION { [1..n -> [Path : MetaPaths, Meta : FileMetadatas]] : n \in 0..MaxMeta }

\* a normalisation that strips "/" before "./"
PathKeySlashFirst(p) == TrimPrefix(TrimPrefix(p, Slash), DotSlash)

\* key := strings.TrimPrefix(strings.TrimPrefix(m.Path, "./"), "/")
PathKey(p) == TrimPrefix(TrimPrefix(p, DotSlash), Slash)

\* an insertion that keeps the metadata already stored under the key
IndexPutKeepFirst(ix, m) ==
    LET key == PathKey(m.Path) IN
    [k \in DOMAIN ix \cup {key} |-> IF k \in DOMAIN ix THEN ix[k] ELSE m.Meta]

\* idx[key] = m.Meta
IndexPut(ix, m) ==
    LET key == PathKey(m.Path) IN
    [k \in DOMAIN ix \cup {key} |-> IF k = key THEN m.Meta ELSE ix[k]]

\* the variables of the other modules, which an index build leaves alone
OtherThanIndex == <<flVars, upVars, ghVars, glVars, ckVars, rrVars>>

InitIndex ==
    /\ IdleLint
    /\ IdleChecksum
    /\ IdleRerun
    /\ IdleGhrelease
    /\ IdleFlatten
    /\ IdleUpload
    /\ metadata \in MetadataLists
    /\ ipc = "make"
    /\ ii = 1
    /\ idx = <<>>

\* idx := make(metadataIndex, len(metadata))
IndexMake ==
    /\ ipc = "make"
    /\ idx' = <<>>
    /\ ii' = 1
    /\ ipc' = "loop"
    /\ UNCHANGED metadata
    /\ UNCHANGED OtherThanIndex

\* for _, m := range metadata { key := ...; idx[key] = m.Meta }
IndexLoop ==
    /\ ipc = "loop"
    /\ ii <= Len(metadata)
    /\ idx' = IndexPut(idx, metadata[ii])
    /\ ii' = ii + 1
    /\ UNCHANGED <<metadata, ipc>>
    /\ UNCHANGED OtherThanIndex

\* return idx
IndexReturn ==
    /\ ipc = "loop"
    /\ ii > Len(metadata)
    /\ ipc' = "done"
    /\ UNCHANGED <<metadata, ii, idx>>
    /\ UNCHANGED OtherThanIndex

NextIndex ==
    \/ IndexMake
    \/ IndexLoop
    \/ IndexReturn

SpecIndex == InitIndex /\ [][NextIndex]_vars

\* buildMetadataIndex as a function of its argument
RECURSIVE IndexOf(_, _)
IndexOf(ix, ms) ==
    IF ms = <<>> THEN ix ELSE IndexOf(IndexPut(ix, Head(ms)), Tail(ms))

buildMetadataIndex(ms) == IndexOf(<<>>, ms)

(***************************************************************************)
(* bucketupload: upload and the exported functions that call it            *)
(***************************************************************************)
MaxArtifacts == 2

MaxUploadMeta == 2

nightly == "nightly"

latest == "latest"

\* candidate files of an artifacts directory, as path segments
ArtifactPool ==
    { << <<"a">> >>,
      << <<"b", "i", "n">>, <<"a", "p", "p">> >>,
      << <<"c">> >> }

ArtifactDirs ==
    UNION { { d \in [1..n -> [segs : ArtifactPool, bytes : {"b1"}]] :
                \A i, j \in 1..n : i # j => d[i].segs # d[j].segs }
            : n \in 0..MaxArtifacts }

\* candidate elements of the metadata argument
UploadMetaPool ==
    { [Path |-> <<".", "/", "a">>,
       Meta |-> [ChecksumSHA256 |-> "", ContentType |-> "text/plain"]],
      [Path |-> <<"/", "a">>,
       Meta |-> [ChecksumSHA256 |-> "c2hhMjU2", ContentType |-> ""]],
      [Path |-> <<"a">>,
       Meta |-> [ChecksumSHA256 |-> "", ContentType |-> ""]],
      [Path |-> BinApp,
       Meta |-> [ChecksumSHA256 |-> "c2hhMjU2", ContentType |-> "text/plain"]],
      [Path |-> <<"z">>,
       Meta |-> [ChecksumSHA256 |-> "c2hhMjU2", ContentType |-> "text/plain"]] }

UploadMetadataLists ==
    UNION { [1..n -> UploadMetaPool] : n \in 0..MaxUploadMeta }

\* the exported functions and the prefix of their first upload call
Calls ==
    { [caller |-> "UploadTree", prefix |-> ""],
      [caller |-> "UploadTree", prefix |-> "oci"],
      [caller |-> "UploadLatest", prefix |-> "v1.2.3"],
      [caller |-> "UploadNightly", prefix |-> nightly] }

\* artifacts.Glob(ctx, "**/*"): the files of the directory at any depth
GlobAll(dir) == Paths(dir)

NeverBulk(ms) == FALSE

\* if len(metadata) == 0: the fast path
BulkPath(ms) == Len(ms) = 0

\* aws s3 sync . <destination> --endpoint-url <endpointURL>
SyncCmd(pre) ==
    [kind |-> "sync", src |-> <<".">>, dest |-> [prefix |-> pre, entry |-> <<>>],
     flags |-> <<>>]

\* headers attached whenever the file is in the index, set or not
CpFlagsUnchecked(ix, entry) ==
    IF entry \in DOMAIN ix
    THEN <<"--content-type", ix[entry].ContentType,
           "--checksum-algorithm", "SHA256",
           "--checksum-sha256", ix[entry].ChecksumSHA256>>
    ELSE <<>>

\* if m, ok := idx[entry]; ok { ... }: the extra arguments of the copy
CpFlags(ix, entry) ==
    IF entry \in DOMAIN ix
    THEN (IF ix[entry].ContentType # ""
          THEN <<"--content-type", ix[entry].ContentType>>
          ELSE <<>>)
         \o
         (IF ix[entry].ChecksumSHA256 # ""
          THEN <<"--checksum-algorithm", "SHA256",
                 "--checksum-sha256", ix[entry].ChecksumSHA256>>
          ELSE <<>>)
    ELSE <<>>

\* aws s3 cp <entry> <destination>/<entry> --endpoint-url <endpointURL> ...
CpCmd(ix, entry, pre) ==
    [kind |-> "cp", src |-> entry, dest |-> [prefix |-> pre, entry |-> entry],
     flags |-> CpFlags(ix, entry)]

\* a tool that keeps what a destination holds and writes beside it
StoredAlongside(b, dir, cmd) ==
    LET new == IF cmd.kind = "sync"
               THEN {[dest |-> [prefix |-> cmd.dest.prefix,
                                entry |-> JoinPath(dir[k].segs)],
                      flags |-> <<>>] : k \in 1..Len(dir)}
               ELSE {[dest |-> cmd.dest, flags |-> cmd.flags]}
    IN b \cup {IF \E p \in b : p.dest = o.dest
               THEN [dest |-> [prefix |-> o.dest.prefix,
                               entry |-> o.dest.entry \o <<"~">>],
                     flags |-> o.flags]
               ELSE o : o \in new}

\* what a successful command stores in the bucket
Stored(b, dir, cmd) ==
    IF cmd.kind = "sync"
    THEN {o \in b : o.dest.prefix # cmd.dest.prefix
                    \/ o.dest.entry \notin {JoinPath(dir[k].segs) : k \in 1..Len(dir)}}
         \cup {[dest |-> [prefix |-> cmd.dest.prefix, entry |-> JoinPath(dir[k].segs)],
                flags |-> <<>>] : k \in 1..Len(dir)}
    ELSE {o \in b : o.dest # cmd.dest}
         \cup {[dest |-> cmd.dest, flags |-> cmd.flags]}

\* what a failed command may have stored before it failed: a bulk sync any
\* part of the tree, a single copy nothing
PartlyStored(b, dir, cmd, S) ==
    IF cmd.kind = "sync"
    THEN {o \in b : o.dest.prefix # cmd.dest.prefix
                    \/ o.dest.entry \notin {JoinPath(dir[k].segs) : k \in S}}
         \cup {[dest |-> [prefix |-> cmd.dest.prefix, entry |-> JoinPath(dir[k].segs)],
                flags |-> <<>>] : k \in S}
    ELSE b

\* the message the caller wraps a failed upload call in
WrapMessage(c, n) ==
    IF c = "UploadTree" THEN "could not upload tree"
    ELSE IF c = "UploadNightly" THEN "could not upload nightly artifacts"
    ELSE IF n = 1 THEN "could not upload versioned release artifacts"
    ELSE "could not upload latest release artifacts"

\* the variables of the other modules, which an upload leaves alone
OtherThanUpload == <<flVars, ipc, ii, ghVars, glVars, ckVars, rrVars>>

InitUpload ==
    /\ IdleLint
    /\ IdleChecksum
    /\ IdleRerun
    /\ IdleGhrelease
    /\ IdleFlatten
    /\ ipc = "idle"
    /\ ii = 1
    /\ idx = <<>>
    /\ metadata \in UploadMetadataLists
    /\ artifacts \in ArtifactDirs
    /\ \E c \in Calls : caller = c.caller /\ prefix = c.prefix
    /\ callNo = 1
    /\ upc = "bucket"
    /\ uentries = <<>>
    /\ ui = 1
    /\ awsCli = <<>>
    /\ xi = 1
    /\ issued = <<>>
    /\ bucket = {}
    /\ uerr = ""
    /\ result = <<>>

\* bucketName, err := b.Bucket.Plaintext(ctx) succeeds
UploadBucketName ==
    /\ upc = "bucket"
    /\ upc' = "endpoint"
    /\ UNCHANGED <<caller, callNo, artifacts, prefix, uentries, ui, awsCli, xi,
                   issued, bucket, uerr, result, metadata, idx>>
    /\ UNCHANGED OtherThanUpload

\* ... fails: return "failed to get bucket name"
UploadBucketNameFails ==
    /\ upc = "bucket"
    /\ uerr' = "failed to get bucket name"
    /\ upc' = "ret"
    /\ UNCHANGED <<caller, callNo, artifacts, prefix, uentries, ui, awsCli, xi,
                   issued, bucket, result, metadata, idx>>
    /\ UNCHANGED OtherThanUpload

\* endpointURL, err := b.Endpoint.Plaintext(ctx) succeeds; the container is
\* prepared; the fast path chains the bulk sync, the other path builds the
\* index and lists the files
UploadEndpoint ==
    /\ upc = "endpoint"
    /\ IF BulkPath(metadata)
       THEN /\ awsCli' = <<SyncCmd(prefix)>>
            /\ xi' = 1
            /\ upc' = "sync"
            /\ UNCHANGED <<idx>>
       ELSE /\ awsCli' = <<>>
            /\ idx' = buildMetadataIndex(metadata)
            /\ upc' = "list"
            /\ UNCHANGED <<xi>>
    /\ UNCHANGED <<caller, callNo, artifacts, prefix, uentries, ui,
                   issued, bucket, uerr, result, metadata>>
    /\ UNCHANGED OtherThanUpload

\* the endpoint error is recorded and the bulk sync chained all the same
UploadEndpointFailsFallsThrough ==
    /\ upc = "endpoint"
    /\ uerr' = "failed to get endpoint"
    /\ awsCli' = <<SyncCmd(prefix)>>
    /\ xi' = 1
    /\ upc' = "sync"
    /\ UNCHANGED <<caller, callNo, artifacts, prefix, uentries, ui,
                   issued, bucket, result, metadata, idx>>
    /\ UNCHANGED OtherThanUpload

\* ... fails: return "failed to get endpoint"
UploadEndpointFails ==
    /\ upc = "endpoint"
    /\ uerr' = "failed to get endpoint"
    /\ upc' = "ret"
    /\ UNCHANGED <<caller, callNo, artifacts, prefix, uentries, ui, awsCli, xi,
                   issued, bucket, result, metadata, idx>>
    /\ UNCHANGED OtherThanUpload

\* entries, err := artifacts.Glob(ctx, "**/*") succeeds
UploadList ==
    /\ upc = "list"
    /\ uentries' = GlobAll(artifacts)
    /\ ui' = 1
    /\ upc' = "loop"
    /\ UNCHANGED <<caller, callNo, artifacts, prefix, awsCli, xi,
                   issued, bucket, uerr, result, metadata, idx>>
    /\ UNCHANGED OtherThanUpload

\* ... fails: return "failed to list artifact files"
UploadListFails ==
    /\ upc = "list"
    /\ uerr' = "failed to list artifact files"
    /\ upc' = "ret"
    /\ UNCHANGED <<caller, callNo, artifacts, prefix, uentries, ui, awsCli, xi,
                   issued, bucket, result, metadata, idx>>
    /\ UNCHANGED OtherThanUpload

\* for _, entry := range entries { ...; awsCli = awsCli.WithExec(cmd) }
UploadLoop ==
    /\ upc = "loop"
    /\ ui <= Len(uentries)
    /\ awsCli' = Append(awsCli, CpCmd(idx, uentries[ui], prefix))
    /\ ui' = ui + 1
    /\ UNCHANGED <<caller, callNo, artifacts, prefix, upc, uentries, xi,
                   issued, bucket, uerr, result, metadata, idx>>
    /\ UNCHANGED OtherThanUpload

\* the loop is over: awsCli.Sync(ctx) starts evaluating the chain
UploadSync ==
    /\ upc = "loop"
    /\ ui > Len(uentries)
    /\ xi' = 1
    /\ upc' = "sync"
    /\ UNCHANGED <<caller, callNo, artifacts, prefix, uentries, ui, awsCli,
                   issued, bucket, uerr, result, metadata, idx>>
    /\ UNCHANGED OtherThanUpload

\* a failing command that does not stop the chain
UploadExecFailsContinue ==
    /\ upc = "sync"
    /\ xi <= Len(awsCli)
    /\ issued' = Append(issued, [call |-> callNo, cmd |-> awsCli[xi], ok |-> FALSE])
    /\ xi' = xi + 1
    /\ UNCHANGED <<caller, callNo, artifacts, prefix, upc, uentries, ui, awsCli,
                   bucket, uerr, result, metadata, idx>>
    /\ UNCHANGED OtherThanUpload

\* Sync runs the next chained command and it exits zero
UploadExec ==
    /\ upc = "sync"
    /\ xi <= Len(awsCli)
    /\ issued' = Append(issued, [call |-> callNo, cmd |-> awsCli[xi], ok |-> TRUE])
    /\ bucket' = Stored(bucket, artifacts, awsCli[xi])
    /\ xi' = xi + 1
    /\ UNCHANGED <<caller, callNo, artifacts, prefix, upc, uentries, ui, awsCli,
                   uerr, result, metadata, idx>>
    /\ UNCHANGED OtherThanUpload

\* Sync runs the next chained command and it exits non-zero: the chain
\* stops and upload returns "failed to upload artifacts to ..."
UploadExecFails ==
    /\ upc = "sync"
    /\ xi <= Len(awsCli)
    /\ issued' = Append(issued, [call |-> callNo, cmd |-> awsCli[xi], ok |-> FALSE])
    /\ \E S \in SUBSET (1..Len(artifacts)) :
           bucket' = PartlyStored(bucket, artifacts, awsCli[xi], S)
    /\ uerr' = "failed to upload artifacts"
    /\ upc' = "ret"
    /\ UNCHANGED <<caller, callNo, artifacts, prefix, uentries, ui, awsCli, xi,
                   result, metadata, idx>>
    /\ UNCHANGED OtherThanUpload

\* every chained command succeeded: return nil
UploadReturn ==
    /\ upc = "sync"
    /\ xi > Len(awsCli)
    /\ uerr' = ""
    /\ upc' = "ret"
    /\ UNCHANGED <<caller, callNo, artifacts, prefix, uentries, ui, awsCli, xi,
                   issued, bucket, result, metadata, idx>>
    /\ UNCHANGED OtherThanUpload

\* the "latest" upload started whatever the version upload returned
UploadLatestSecondAlways ==
    /\ upc = "ret"
    /\ caller = "UploadLatest"
    /\ callNo = 1
    /\ callNo' = 2
    /\ prefix' = latest
    /\ upc' = "bucket"
    /\ uentries' = <<>>
    /\ ui' = 1
    /\ awsCli' = <<>>
    /\ xi' = 1
    /\ idx' = <<>>
    /\ uerr' = ""
    /\ UNCHANGED <<caller, artifacts, issued, bucket, result, metadata>>
    /\ UNCHANGED OtherThanUpload

\* UploadLatest: the version upload returned nil, upload under "latest"
UploadLatestSecond ==
    /\ upc = "ret"
    /\ caller = "UploadLatest"
    /\ callNo = 1
    /\ uerr = ""
    /\ callNo' = 2
    /\ prefix' = latest
    /\ upc' = "bucket"
    /\ uentries' = <<>>
    /\ ui' = 1
    /\ awsCli' = <<>>
    /\ xi' = 1
    /\ idx' = <<>>
    /\ UNCHANGED <<caller, artifacts, issued, bucket, uerr, result, metadata>>
    /\ UNCHANGED OtherThanUpload

\* the exported function returns: the wrapped error of upload, or nil
UploadCallerReturn ==
    /\ upc = "ret"
    /\ ~(caller = "UploadLatest" /\ callNo = 1 /\ uerr = "")
    /\ result' = IF uerr = "" THEN <<>> ELSE <<WrapMessage(caller, callNo), uerr>>
    /\ upc' = "done"
    /\ UNCHANGED <<caller, callNo, artifacts, prefix, uentries, ui, awsCli, xi,
                   issued, bucket, uerr, metadata, idx>>
    /\ UNCHANGED OtherThanUpload

NextUpload ==
    \/ UploadBucketName
    \/ UploadBucketNameFails
    \/ UploadEndpoint
    \/ UploadEndpointFails
    \/ UploadList
    \/ UploadListFails
    \/ UploadLoop
    \/ UploadSync
    \/ UploadExec
    \/ UploadExecFails
    \/ UploadReturn
    \/ UploadLatestSecond
    \/ UploadCallerReturn

SpecUpload == InitUpload /\ [][NextUpload]_vars

(***************************************************************************)
(* ghrelease: New, WithFlatten, WithTag, Upload                            *)
(***************************************************************************)
MaxAssets == 2

MaxChained == 3

Tags == {"", "nightly", "v1.0.0"}

\* candidate files of an assets directory, as path segments
AssetPool ==
    { << <<"a">>, <<"b", "-", "c">>, <<"x">> >>,
      << <<"a", "-", "b">>, <<"c">>, <<"x">> >>,
      << <<"a">>, <<"c">>, <<"x">> \o Sha256Suffix >>,
      << <<"x">> >> }

AssetDirs ==
    UNION { { d \in [1..n -> [segs : AssetPool, bytes : Contents]] :
                \A i, j \in 1..n : i # j => d[i].segs # d[j].segs }
            : n \in 0..MaxAssets }

\* FlattenNameOsArch as a function of its argument: the loop over the
\* listing, started from the empty directory
RECURSIVE FlattenFrom(_, _, _)
FlattenFrom(d, dir, es) ==
    IF es = <<>> THEN d
    ELSE FlattenFrom(FlattenEntry(d, dir, Head(es)), dir, Tail(es))

FlattenNameOsArch(dir) == FlattenFrom({}, dir, GlobStar3(dir))

\* the listings a directory given as a set of named files can have
Listings(d) ==
    { l \in [1..Cardinality(d) -> [segs : {<<e.name>> : e \in d}, bytes : Contents]] :
        /\ \A i \in 1..Cardinality(d) : [name |-> l[i].segs[1], bytes |-> l[i].bytes] \in d
        /\ \A i, j \in 1..Cardinality(d) : i # j => l[i].segs # l[j].segs }

\* the first segments of the paths of es, each once, in order
RECURSIVE TopLevel(_, _)
TopLevel(es, seen) ==
    IF es = <<>> THEN <<>>
    ELSE LET top == SplitN(Head(es), 2)[1] IN
         IF top \in seen THEN TopLevel(Tail(es), seen)
         ELSE <<top>> \o TopLevel(Tail(es), seen \cup {top})

\* a listing of every file at any depth instead of the top-level entries
GlobStarAllPaths(dir) == Paths(dir)

\* dist.Glob(ctx, "*"): the top-level entries of the directory
GlobStar(dir) == TopLevel(Paths(dir), {})

\* path.Join("/dist", entry)
DistPath(entry) == <<"/", "d", "i", "s", "t", "/">> \o entry

RECURSIVE DistPaths(_)
DistPaths(es) ==
    IF es = <<>> THEN <<>> ELSE <<DistPath(Head(es))>> \o DistPaths(Tail(es))

\* gh release upload <tag> --repo <repo> --clobber /dist/<entry> ...
UploadArgs(tag, repo, es) ==
    [cmd |-> <<"gh", "release", "upload">>, tag |-> tag, repo |-> repo,
     clobber |-> TRUE, files |-> DistPaths(es)]

TagAlwaysSet(tag) == TRUE

\* the negation of: if m.Tag == ""
TagSet(tag) == tag # ""

\* the variables of the other modules, which a release leaves alone
OtherThanGhrelease == <<flVars, ixVars, upVars, glVars, ckVars, rrVars>>

\* New(token, repo, assets)
InitGhrelease ==
    /\ IdleLint
    /\ IdleChecksum
    /\ IdleRerun
    /\ IdleFlatten
    /\ IdleIndex
    /\ IdleUpload
    /\ Token = "GH_TOKEN"
    /\ Repo = "papercomputeco/tapes"
    /\ Assets \in AssetDirs
    /\ DoFlatten = FALSE
    /\ Tag = ""
    /\ gpc = "chain"
    /\ chained = <<>>
    /\ gdist = <<>>
    /\ flattened = FALSE
    /\ listings = 0
    /\ gentries = <<>>
    /\ released = <<>>
    /\ gerr = ""

\* a WithFlatten that flips the flag instead of setting it
WithFlattenToggles ==
    /\ gpc = "chain"
    /\ Len(chained) < MaxChained
    /\ DoFlatten' = ~DoFlatten
    /\ chained' = Append(chained, [op |-> "WithFlatten", tag |-> ""])
    /\ UNCHANGED <<Token, Repo, Assets, Tag, gpc, gdist, flattened, listings,
                   gentries, released, gerr>>
    /\ UNCHANGED OtherThanGhrelease

\* m.DoFlatten = true; return m
WithFlatten ==
    /\ gpc = "chain"
    /\ Len(chained) < MaxChained
    /\ DoFlatten' = TRUE
    /\ chained' = Append(chained, [op |-> "WithFlatten", tag |-> ""])
    /\ UNCHANGED <<Token, Repo, Assets, Tag, gpc, gdist, flattened, listings,
                   gentries, released, gerr>>
    /\ UNCHANGED OtherThanGhrelease

WithTagResetsFlatten(tag) ==
    /\ gpc = "chain"
    /\ Len(chained) < MaxChained
    /\ Tag' = tag
    /\ DoFlatten' = FALSE
    /\ chained' = Append(chained, [op |-> "WithTag", tag |-> tag])
    /\ UNCHANGED <<Token, Repo, Assets, gpc, gdist, flattened, listings,
                   gentries, released, gerr>>
    /\ UNCHANGED OtherThanGhrelease

\* m.Tag = tag; return m
WithTag(tag) ==
    /\ gpc = "chain"
    /\ Len(chained) < MaxChained
    /\ Tag' = tag
    /\ chained' = Append(chained, [op |-> "WithTag", tag |-> tag])
    /\ UNCHANGED <<Token, Repo, Assets, DoFlatten, gpc, gdist, flattened, listings,
                   gentries, released, gerr>>
    /\ UNCHANGED OtherThanGhrelease

\* Upload with no tag: return "no tag set: call WithTag before Upload"
UploadNoTag ==
    /\ gpc = "chain"
    /\ ~TagSet(Tag)
    /\ gerr' = "no tag set: call WithTag before Upload"
    /\ gpc' = "done"
    /\ UNCHANGED <<Token, Repo, Assets, DoFlatten, Tag, chained, gdist, flattened,
                   listings, gentries, released>>
    /\ UNCHANGED OtherThanGhrelease

\* Upload with a tag: dist := m.Assets, or the flattened assets if
\* m.DoFlatten; the flattened directory lists in some order
UploadDist ==
    /\ gpc = "chain"
    /\ TagSet(Tag)
    /\ IF DoFlatten
       THEN /\ gdist' \in Listings(FlattenNameOsArch(Assets))
            /\ flattened' = TRUE
       ELSE /\ gdist' = Assets
            /\ UNCHANGED flattened
    /\ gpc' = "glob"
    /\ UNCHANGED <<Token, Repo, Assets, DoFlatten, Tag, chained, listings,
                   gentries, released, gerr>>
    /\ UNCHANGED OtherThanGhrelease

\* entries, err := dist.Glob(ctx, "*") succeeds
UploadGlob ==
    /\ gpc = "glob"
    /\ listings' = listings + 1
    /\ gentries' = GlobStar(gdist)
    /\ gpc' = "exec"
    /\ UNCHANGED <<Token, Repo, Assets, DoFlatten, Tag, chained, gdist, flattened,
                   released, gerr>>
    /\ UNCHANGED OtherThanGhrelease

\* ... fails: return "failed to list dist files"
UploadGlobFails ==
    /\ gpc = "glob"
    /\ listings' = listings + 1
    /\ gerr' = "failed to list dist files"
    /\ gpc' = "done"
    /\ UNCHANGED <<Token, Repo, Assets, DoFlatten, Tag, chained, gdist, flattened,
                   gentries, released>>
    /\ UNCHANGED OtherThanGhrelease

\* the container runs gh release upload and it exits zero: return nil
UploadRelease ==
    /\ gpc = "exec"
    /\ released' = Append(released, [args |-> UploadArgs(Tag, Repo, gentries),
                                     ok |-> TRUE])
    /\ gpc' = "done"
    /\ UNCHANGED <<Token, Repo, Assets, DoFlatten, Tag, chained, gdist, flattened,
                   listings, gentries, gerr>>
    /\ UNCHANGED OtherThanGhrelease

\* ... exits non-zero: return "failed to upload release assets"
UploadReleaseFails ==
    /\ gpc = "exec"
    /\ released' = Append(released, [args |-> UploadArgs(Tag, Repo, gentries),
                                     ok |-> FALSE])
    /\ gerr' = "failed to upload release assets"
    /\ gpc' = "done"
    /\ UNCHANGED <<Token, Repo, Assets, DoFlatten, Tag, chained, gdist, flattened,
                   listings, gentries>>
    /\ UNCHANGED OtherThanGhrelease

NextGhrelease ==
    \/ WithFlatten
    \/ \E tag \in Tags : WithTag(tag)
    \/ UploadNoTag
    \/ UploadDist
    \/ UploadGlob
    \/ UploadGlobFails
    \/ UploadRelease
    \/ UploadReleaseFails

SpecGhrelease == InitGhrelease /\ [][NextGhrelease]_vars

(***************************************************************************)
(* golangcilint: Lint, Check, lintContainer                                *)
(***************************************************************************)
MaxEnv == 3

\* candidate entries of EnvVars: A=1, A=2, B=, A=b=c, =x, A and the empty
\* string
EnvPool ==
    { <<"A", "=", "1">>,
      <<"A", "=", "2">>,
      <<"B", "=">>,
      <<"A", "=", "b", "=", "c">>,
      <<"=", "x">>,
      <<"A">>,
      <<>> }

EnvLists == UNION { [1..n -> EnvPool] : n \in 0..MaxEnv }

\* index of the first c of s at or after k, 0 if there is none
RECURSIVE IndexByte(_, _, _)
IndexByte(s, c, k) ==
    IF k > Len(s) THEN 0
    ELSE IF s[k] = c THEN k
    ELSE IndexByte(s, c, k + 1)

\* strings.SplitN(s, c, n) for a one-character separator and n >= 1
RECURSIVE SplitNAt(_, _, _)
SplitNAt(s, c, n) ==
    LET k == IndexByte(s, c, 1) IN
    IF n = 1 \/ k = 0 THEN <<s>>
    ELSE <<SubSeq(s, 1, k - 1)>> \o SplitNAt(SubSeq(s, k + 1, Len(s)), c, n - 1)

EnvValidAnyKey(parts) == Len(parts) = 2

\* the negation of: if len(parts) != 2 || parts[0] == ""
EnvValid(parts) == Len(parts) = 2 /\ parts[1] # <<>>

\* ctr.WithEnvVariable(name, value): the variable is set, replacing the
\* value the container had for it
WithEnvVariable(env, name, value) ==
    [k \in DOMAIN env \cup {name} |-> IF k = name THEN value ELSE env[k]]

\* buildArgs(extra...)
buildArgs(extra) ==
    <<"golangci-lint", "run", "--config", "/src/.golangci.yml">> \o extra
        \o <<"./...">>

\* the variables of the other modules, which a lint leaves alone
OtherThanLint == <<flVars, ixVars, upVars, ghVars, ckVars, rrVars>>

\* New(source, config, envVars, baseCtr), and Lint or Check called
InitLint ==
    /\ IdleFlatten
    /\ IdleIndex
    /\ IdleUpload
    /\ IdleGhrelease
    /\ IdleChecksum
    /\ IdleRerun
    /\ EnvVars \in EnvLists
    /\ lop \in {"Lint", "Check"}
    /\ lpc = "env"
    /\ li = 1
    /\ ctrEnv = <<>>
    /\ lexec = <<>>
    /\ lret = "nil"
    /\ lerr = <<>>

\* for _, env := range m.EnvVars: a well-formed entry is applied
LintEnvLoop ==
    /\ lpc = "env"
    /\ li <= Len(EnvVars)
    /\ LET parts == SplitNAt(EnvVars[li], "=", 2) IN
       /\ EnvValid(parts)
       /\ ctrEnv' = WithEnvVariable(ctrEnv, parts[1], parts[2])
    /\ li' = li + 1
    /\ UNCHANGED <<EnvVars, lop, lpc, lexec, lret, lerr>>
    /\ UNCHANGED OtherThanLint

\* ... a malformed entry: lintContainer returns "invalid env var", and
\* Lint returns nil, Check "", with "could not create lint container"
LintEnvInvalid ==
    /\ lpc = "env"
    /\ li <= Len(EnvVars)
    /\ ~EnvValid(SplitNAt(EnvVars[li], "=", 2))
    /\ lerr' = <<"could not create lint container", "invalid env var", EnvVars[li]>>
    /\ lret' = IF lop = "Lint" THEN "nil" ELSE ""
    /\ lpc' = "done"
    /\ UNCHANGED <<EnvVars, lop, li, ctrEnv, lexec>>
    /\ UNCHANGED OtherThanLint

\* Lint: return ctr.WithExec(m.buildArgs("--fix")).Directory("/src"), nil
LintReturn ==
    /\ lpc = "env"
    /\ li > Len(EnvVars)
    /\ lop = "Lint"
    /\ lexec' = Append(lexec, [args |-> buildArgs(<<"--fix">>), env |-> ctrEnv])
    /\ lret' = "dir"
    /\ lpc' = "done"
    /\ UNCHANGED <<EnvVars, lop, li, ctrEnv, lerr>>
    /\ UNCHANGED OtherThanLint

\* Check: return ctr.WithExec(m.buildArgs()).Stdout(ctx), the linter
\* exiting zero
CheckStdout ==
    /\ lpc = "env"
    /\ li > Len(EnvVars)
    /\ lop = "Check"
    /\ lexec' = Append(lexec, [args |-> buildArgs(<<>>), env |-> ctrEnv])
    /\ lret' = "stdout"
    /\ lpc' = "done"
    /\ UNCHANGED <<EnvVars, lop, li, ctrEnv, lerr>>
    /\ UNCHANGED OtherThanLint

\* ... the linter exiting non-zero: Stdout returns "" and the exec error
CheckStdoutFails ==
    /\ lpc = "env"
    /\ li > Len(EnvVars)
    /\ lop = "Check"
    /\ lexec' = Append(lexec, [args |-> buildArgs(<<>>), env |-> ctrEnv])
    /\ lret' = ""
    /\ lerr' = <<"exec failed">>
    /\ lpc' = "done"
    /\ UNCHANGED <<EnvVars, lop, li, ctrEnv>>
    /\ UNCHANGED OtherThanLint

NextLint ==
    \/ LintEnvLoop
    \/ LintEnvInvalid
    \/ LintReturn
    \/ CheckStdout
    \/ CheckStdoutFails

SpecLint == InitLint /\ [][NextLint]_vars

(***************************************************************************)
(* checksum: Checksumer.Checksum                                           *)
(***************************************************************************)
MaxSumFiles == 3

\* candidate files of the input directory, as path segments: x, x.sha256,
\* bin/app, a/b/c, "x " (trailing blank) and "y\z" (a backslash)
SumPool ==
    { << <<"x">> >>,
      << <<"x">> \o Sha256Suffix >>,
      << <<"b", "i", "n">>, <<"a", "p", "p">> >>,
      << <<"a">>, <<"b">>, <<"c">> >>,
      << <<"x", " ">> >>,
      << <<"y", "\\", "z">> >> }

SumDirs ==
    UNION { { d \in [1..n -> [segs : SumPool, bytes : Contents]] :
                \A i, j \in 1..n : i # j => d[i].segs # d[j].segs }
            : n \in 0..MaxSumFiles }

\* WithDirectory("/artifacts", dir): the working directory, path -> contents
Mounted(dir) ==
    [p \in {JoinPath(dir[k].segs) : k \in 1..Len(dir)} |->
        [kind |-> "file",
         data |-> dir[CHOOSE k \in 1..Len(dir) : JoinPath(dir[k].segs) = p].bytes]]

\* find . -type f ! -name "*.sha256": one line ./<path> for each file whose
\* name does not end in .sha256
RECURSIVE Find(_)
Find(dir) ==
    IF dir = <<>> THEN <<>>
    ELSE LET segs == Head(dir).segs IN
         IF HasSuffix(segs[Len(segs)], Sha256Suffix)
         THEN Find(Tail(dir))
         ELSE <<DotSlash \o JoinPath(segs)>> \o Find(Tail(dir))

\* read without -r takes a backslash as an escape: it goes, the character
\* after it stays
RECURSIVE Unescape(_)
Unescape(s) ==
    IF s = <<>> THEN <<>>
    ELSE IF Head(s) = "\\"
         THEN (IF Len(s) >= 2 THEN <<s[2]>> \o Unescape(SubSeq(s, 3, Len(s)))
               ELSE <<>>)
         ELSE <<Head(s)>> \o Unescape(Tail(s))

\* read strips the blanks at both ends of the line
RECURSIVE TrimBlanks(_)
TrimBlanks(s) ==
    IF s = <<>> THEN s
    ELSE IF Head(s) = " " THEN TrimBlanks(Tail(s))
    ELSE IF s[Len(s)] = " " THEN TrimBlanks(SubSeq(s, 1, Len(s) - 1))
    ELSE s

\* while read file: the value of $file for a line of find
ReadLine(line) == TrimBlanks(Unescape(line))

\* sha256sum "$file" | sed 's|./||' > "${file}.sha256": the redirection
\* creates the target; it holds the checksum line of $file, or nothing when
\* there is no such file
SumWritten(wd, file) ==
    LET p == TrimPrefix(file, DotSlash)
        target == p \o Sha256Suffix
        line == IF p \in DOMAIN wd THEN wd[p].data ELSE ""
    IN [q \in DOMAIN wd \cup {target} |->
           IF q = target THEN [kind |-> "sha256sum", data |-> line] ELSE wd[q]]

\* the variables of the other modules, which a checksum leaves alone
OtherThanChecksum == <<flVars, ixVars, upVars, ghVars, glVars, rrVars>>

\* Checksum(dir): the container with dir at /artifacts
InitChecksum ==
    /\ IdleFlatten
    /\ IdleIndex
    /\ IdleUpload
    /\ IdleGhrelease
    /\ IdleLint
    /\ IdleRerun
    /\ cdir \in SumDirs
    /\ cpc = "find"
    /\ cfound = <<>>
    /\ ci = 1
    /\ cout = Mounted(cdir)

\* find prints its lines
ChecksumFind ==
    /\ cpc = "find"
    /\ cfound' = Find(cdir)
    /\ ci' = 1
    /\ cpc' = "loop"
    /\ UNCHANGED <<cdir, cout>>
    /\ UNCHANGED OtherThanChecksum

\* one iteration of the while loop
ChecksumLoop ==
    /\ cpc = "loop"
    /\ ci <= Len(cfound)
    /\ cout' = SumWritten(cout, ReadLine(cfound[ci]))
    /\ ci' = ci + 1
    /\ UNCHANGED <<cdir, cpc, cfound>>
    /\ UNCHANGED OtherThanChecksum

\* the lines are exhausted: Directory("/artifacts") is returned
ChecksumReturn ==
    /\ cpc = "loop"
    /\ ci > Len(cfound)
    /\ cpc' = "done"
    /\ UNCHANGED <<cdir, cfound, ci, cout>>
    /\ UNCHANGED OtherThanChecksum

NextChecksum ==
    \/ ChecksumFind
    \/ ChecksumLoop
    \/ ChecksumReturn

SpecChecksum == InitChecksum /\ [][NextChecksum]_vars

(***************************************************************************)
(* The same upload run again: Bucketuploader.upload and Ghrelease.Upload   *)
(* as functions from the destination before a successful run to the        *)
(* destination after it                                                    *)
(***************************************************************************)
MaxRuns == 2

\* the commands upload chains for a tree, a prefix and a metadata list
UploadChain(dir, pre, ms) ==
    IF BulkPath(ms) THEN <<SyncCmd(pre)>>
    ELSE LET ix == buildMetadataIndex(ms)
             es == GlobAll(dir)
         IN [i \in 1..Len(es) |-> CpCmd(ix, es[i], pre)]

\* the bucket after every command of the chain succeeded
RECURSIVE ChainStored(_, _, _)
ChainStored(b, dir, chain) ==
    IF chain = <<>> THEN b
    ELSE ChainStored(Stored(b, dir, Head(chain)), dir, Tail(chain))

\* gh release upload exits zero: every argument is a file, and without
\* --clobber no asset of the release has the name of one
CanRelease(store, args, d) ==
    /\ \A k \in 1..Len(d) : Len(d[k].segs) = 1
    /\ args.clobber
       \/ ~\E a \in store :
             /\ a.tag = args.tag
             /\ \E i \in 1..Len(args.files) : args.files[i] = DistPath(a.name)

\* the assets of the releases after it: each argument replaces the asset of
\* its name in the release of the tag
Released(store, args, d) ==
    {a \in store :
        \/ a.tag # args.tag
        \/ ~\E i \in 1..Len(args.files) : args.files[i] = DistPath(a.name)}
    \cup {[tag |-> args.tag, name |-> d[k].segs[1], bytes |-> d[k].bytes] :
            k \in {k \in 1..Len(d) :
                     \E i \in 1..Len(args.files) :
                         args.files[i] = DistPath(d[k].segs[1])}}

\* what the destination may hold before the first run: nothing, or an
\* older upload of a and something unrelated
BucketsBefore(pre) ==
    { {},
      { [dest |-> [prefix |-> pre, entry |-> <<"a">>],
         flags |-> <<"--content-type", "application/old">>],
        [dest |-> [prefix |-> "other", entry |-> <<"k">>], flags |-> <<>>] } }

ReleasesBefore(tag) ==
    { {},
      { [tag |-> tag, name |-> <<"x">>, bytes |-> "old"],
        [tag |-> "v0.9.0", name |-> <<"x">>, bytes |-> "old"] } }

\* the variables of the other modules
OtherThanRerun == <<flVars, ixVars, upVars, ghVars, glVars, ckVars>>

InitRerun ==
    /\ IdleFlatten
    /\ IdleIndex
    /\ IdleUpload
    /\ IdleGhrelease
    /\ IdleLint
    /\ IdleChecksum
    /\ rkind \in {"bucket", "release"}
    /\ IF rkind = "bucket"
       THEN /\ rdir \in ArtifactDirs
            /\ rname = "oci"
            /\ rmeta \in UploadMetadataLists
            /\ rflat = FALSE
            /\ rstore \in BucketsBefore(rname)
       ELSE /\ rdir \in AssetDirs
            /\ rname \in {t \in Tags : TagSet(t)}
            /\ rmeta = <<>>
            /\ rflat \in BOOLEAN
            /\ rstore \in ReleasesBefore(rname)
    /\ rfirst = {}
    /\ runs = 0

\* upload(ctx, rdir, rname, rmeta) runs and returns nil
RerunUpload ==
    /\ rkind = "bucket"
    /\ runs < MaxRuns
    /\ rstore' = ChainStored(rstore, rdir, UploadChain(rdir, rname, rmeta))
    /\ rfirst' = IF runs = 0 THEN rstore' ELSE rfirst
    /\ runs' = runs + 1
    /\ UNCHANGED <<rkind, rdir, rname, rmeta, rflat>>
    /\ UNCHANGED OtherThanRerun

\* Upload(ctx) runs on an instance with the tag rname and returns nil
RerunRelease ==
    /\ rkind = "release"
    /\ runs < MaxRuns
    /\ TagSet(rname)
    /\ \E d \in (IF rflat THEN Listings(FlattenNameOsArch(rdir)) ELSE {rdir}) :
         LET args == UploadArgs(rname, "papercomputeco/tapes", GlobStar(d)) IN
         /\ CanRelease(rstore, args, d)
         /\ rstore' = Released(rstore, args, d)
    /\ rfirst' = IF runs = 0 THEN rstore' ELSE rfirst
    /\ runs' = runs + 1
    /\ UNCHANGED <<rkind, rdir, rname, rmeta, rflat>>
    /\ UNCHANGED OtherThanRerun

NextRerun ==
    \/ RerunUpload
    \/ RerunRelease

SpecRerun == InitRerun /\ [][NextRerun]_vars

(***************************************************************************)
(* Properties of FlattenNameOsArch                                         *)
(***************************************************************************)
\* the indices of the files of build that lie at os/arch/filename
Depth3Files == {k \in 1..Len(build) : Len(build[k].segs) = 3}

\* the flattened name as the documentation states it, from the segments
ClaimedName(segs) ==
    LET os == segs[1]
        arch == segs[2]
        filename == segs[3]
        bases == {n \in 0..Len(filename) :
                     filename = SubSeq(filename, 1, n) \o Sha256Suffix}
    IN
    IF bases # {}
    THEN LET n == CHOOSE n \in bases : TRUE
         IN SubSeq(filename, 1, n) \o <<"-">> \o os \o <<"-">> \o arch
                \o <<".", "s", "h", "a", "2", "5", "6">>
    ELSE filename \o <<"-">> \o os \o <<"-">> \o arch

\* k is not followed in the listing by a file with the same flattened name
NotOverwritten(k) ==
    \A j \in Depth3Files :
        j > k => ClaimedName(build[j].segs) # ClaimedName(build[k].segs)

FlattenReturned == fpc = "done" /\ ferr = ""

\* C1: every os/arch/filename file that no later colliding file overwrites
\* is in the output with its contents, named base-os-arch.sha256 when
\* filename = base.sha256 and filename-os-arch otherwise.
C1_FlattenedNames ==
    FlattenReturned =>
        \A k \in Depth3Files :
            NotOverwritten(k) =>
                [name |-> ClaimedName(build[k].segs), bytes |-> build[k].bytes]
                    \in dist

\* a finished run over a directory holding a checksum file, a file with a
\* near-miss suffix and a plain file, all three in the output
C1_Witness ==
    /\ FlattenReturned
    /\ \E k \in Depth3Files :
        /\ build[k].segs[3] = <<"x">> \o Sha256Suffix
        /\ [name |-> <<"x", "-", "a", "-", "c">> \o Sha256Suffix,
            bytes |-> build[k].bytes] \in dist
    /\ \E k \in Depth3Files :
        /\ build[k].segs[3] = <<"x", ".", "s", "h", "a", "2", "5">>
        /\ [name |-> <<"x", ".", "s", "h", "a", "2", "5", "-", "a", "-", "c">>,
            bytes |-> build[k].bytes] \in dist
    /\ \E k \in Depth3Files : build[k].segs[3] = <<"x">>

\* C2: paths with fewer or more than three segments are left out without
\* an error: the output has at most as many entries as there are
\* three-segment input paths, the only error is a failed listing, and a
\* directory without three-segment paths flattens to the empty directory.
C2_OnlyDepth3 ==
    /\ Cardinality(dist) <= Cardinality(Depth3Files)
    /\ fpc = "loop" => ferr = ""
    /\ ferr \in {"", "failed to list build artifacts"}
    /\ (FlattenReturned /\ Depth3Files = {}) => dist = {}

\* a finished run over a directory with files at depth 1, 3 and 4 whose
\* output holds one entry
C2_Witness ==
    /\ FlattenReturned
    /\ \E i, j, k \in 1..Len(build) :
        /\ Len(build[i].segs) = 1
        /\ Len(build[j].segs) = 4
        /\ Len(build[k].segs) = 3
    /\ Cardinality(dist) = 1

\* the files of build whose flattened name is n
Sources(n) == {k \in Depth3Files : ClaimedName(build[k].segs) = n}

Last(S) == CHOOSE k \in S : \A j \in S : j <= k

\* C3: when two input entries map to the same flattened name, the output
\* has exactly one entry under that name, with the contents of the entry
\* that comes last in the listing, and no error is raised.
C3_LastWriteWins ==
    FlattenReturned =>
        \A k \in Depth3Files :
            LET n == ClaimedName(build[k].segs) IN
            Cardinality(Sources(n)) >= 2 =>
                {e \in dist : e.name = n}
                    = {[name |-> n, bytes |-> build[Last(Sources(n))].bytes]}

\* a finished run in which a/b-c/x and a-b/c/x, with different contents,
\* both became x-a-b-c
C3_Witness ==
    /\ FlattenReturned
    /\ \E j, k \in Depth3Files :
        /\ j < k
        /\ ClaimedName(build[j].segs) = ClaimedName(build[k].segs)
        /\ build[j].bytes # build[k].bytes
        /\ \E e \in dist : e.name = <<"x", "-", "a", "-", "b", "-", "c">>

(***************************************************************************)
(* Properties of buildMetadataIndex                                        *)
(***************************************************************************)
\* the key the documentation describes: drop one leading "./" if there is
\* one, then drop one leading "/" if there is one, keep the rest
StrippedOnce(p) ==
    LET a == IF Len(p) >= 2 /\ p[1] = "." /\ p[2] = "/" THEN 2 ELSE 0
        b == IF Len(p) >= a + 1 /\ p[a + 1] = "/" THEN 1 ELSE 0
    IN [i \in 1..(Len(p) - a - b) |-> p[i + a + b]]

\* C4: every element processed so far is keyed by its path with one
\* leading "./" stripped and then one leading "/" stripped, the rest of the
\* path unchanged; "./bin/app", "/bin/app" and "bin/app" give "bin/app".
C4_KeyStripsOnce ==
    ipc \in {"loop", "done"} =>
        /\ \A i \in 1..(ii - 1) : StrippedOnce(metadata[i].Path) \in DOMAIN idx
        /\ \A k \in DOMAIN idx :
            \E i \in 1..(ii - 1) : k = StrippedOnce(metadata[i].Path)

\* a finished build over "./bin/app" and "/bin/app" whose only key is
\* "bin/app"
C4_Witness ==
    /\ ipc = "done"
    /\ Len(metadata) = 2
    /\ metadata[1].Path = <<".", "/", "b", "i", "n", "/", "a", "p", "p">>
    /\ metadata[2].Path = <<"/", "b", "i", "n", "/", "a", "p", "p">>
    /\ DOMAIN idx = {<<"b", "i", "n", "/", "a", "p", "p">>}

\* the elements of metadata whose path normalises to k
KeyedBy(k) == {i \in 1..Len(metadata) : StrippedOnce(metadata[i].Path) = k}

\* C5: the finished index has exactly the distinct normalised keys of the
\* list as its keys, and under each key the metadata of the last element
\* of the list with that key.
C5_LastElementWins ==
    ipc = "done" =>
        /\ DOMAIN idx = {StrippedOnce(metadata[i].Path) : i \in 1..Len(metadata)}
        /\ \A k \in DOMAIN idx : idx[k] = metadata[Last(KeyedBy(k))].Meta

\* a finished build over two elements with the same key and different
\* metadata
C5_Witness ==
    /\ ipc = "done"
    /\ Len(metadata) = 2
    /\ metadata[1].Path # metadata[2].Path
    /\ StrippedOnce(metadata[1].Path) = StrippedOnce(metadata[2].Path)
    /\ metadata[1].Meta # metadata[2].Meta
    /\ Cardinality(DOMAIN idx) = 1

\* C6: no key of the index begins with "./" and no key begins with "/".
C6_KeysCanonical ==
    \A k \in DOMAIN idx :
        /\ ~(Len(k) >= 2 /\ k[1] = "." /\ k[2] = "/")
        /\ ~(Len(k) >= 1 /\ k[1] = "/")

(***************************************************************************)
(* Properties of upload                                                    *)
(***************************************************************************)
\* the invocations the running upload call has made so far
IssuedBy(n) == SelectSeq(issued, LAMBDA r : r.call = n)

\* the running upload call has returned nil
UploadReturnedNil == upc = "ret" /\ uerr = ""

HasFlag(cmd, flag) == \E i \in 1..Len(cmd.flags) : cmd.flags[i] = flag

\* C7: with no metadata, an upload call that gets to transfer makes
\* exactly one bulk sync of the whole tree to its prefix and no copy of a
\* single file, however many files the tree has.
C7_NoMetadataOneSync ==
    metadata = <<>> =>
        /\ \A i \in 1..Len(issued) : issued[i].cmd.kind = "sync"
        /\ Len(IssuedBy(callNo)) <= 1
        /\ UploadReturnedNil =>
            /\ Len(IssuedBy(callNo)) = 1
            /\ IssuedBy(callNo)[1].cmd.src = <<".">>
            /\ IssuedBy(callNo)[1].cmd.dest = [prefix |-> prefix, entry |-> <<>>]

\* an upload of two files without metadata that returned nil after one
\* sync
C7_Witness ==
    /\ metadata = <<>>
    /\ Len(artifacts) = 2
    /\ UploadReturnedNil
    /\ Len(issued) = 1
    /\ issued[1].cmd.kind = "sync"
    /\ Cardinality(bucket) = 2

\* the metadata the claim attaches to a listed file: that of the last
\* element of the list whose key is the file's path, if there is one
MetaFor(entry) ==
    LET S == {i \in 1..Len(metadata) : StrippedOnce(metadata[i].Path) = entry}
    IN IF S = {} THEN [ChecksumSHA256 |-> "", ContentType |-> ""]
       ELSE metadata[Last(S)].Meta

C9_FailFast ==
    /\ \A i \in 1..Len(issued) :
        ~issued[i].ok =>
            /\ i = Len(issued)
            /\ upc \in {"ret", "done"}
            /\ uerr = "failed to upload artifacts"
            /\ upc = "done" => result # <<>>
    /\ \A i \in 1..Len(issued) :
        (issued[i].ok /\ issued[i].cmd.kind = "cp") =>
            \E o \in bucket : o.dest = issued[i].cmd.dest

\* a finished per-file upload of two files whose second copy failed: the
\* first file is in the bucket, the second is not, and an error came back
C9_Witness ==
    /\ upc = "done"
    /\ metadata # <<>>
    /\ Len(uentries) = 2
    /\ Len(issued) = 2
    /\ issued[1].ok
    /\ ~issued[2].ok
    /\ result # <<>>
    /\ \E o \in bucket : o.dest.entry = uentries[1]
    /\ ~\E o \in bucket : o.dest.entry = uentries[2]

\* the version UploadLatest is called with
VersionPrefix == (CHOOSE c \in Calls : c.caller = "UploadLatest").prefix

\* every artifact file has an object under the prefix
InPlace(pre) ==
    \A k \in 1..Len(artifacts) :
        \E o \in bucket : o.dest = [prefix |-> pre, entry |-> JoinPath(artifacts[k].segs)]

\* C12: UploadLatest uploads under the version prefix first and under
\* "latest" second, the second only after the first succeeded; a failed
\* version upload returns an error with nothing under "latest"; a failed
\* "latest" upload returns an error with the version upload in place;
\* success is returned only when both uploads succeeded.
C12_VersionThenLatest ==
    caller = "UploadLatest" =>
        /\ \A i \in 1..Len(issued) :
             issued[i].cmd.dest.prefix
               = IF issued[i].call = 1 THEN VersionPrefix ELSE latest
        /\ \A i, j \in 1..Len(issued) : i < j => issued[i].call <= issued[j].call
        /\ callNo = 1 =>
             /\ IssuedBy(2) = <<>>
             /\ ~\E o \in bucket : o.dest.prefix = latest
             /\ upc = "done" =>
                  /\ uerr # ""
                  /\ result = <<"could not upload versioned release artifacts", uerr>>
        /\ callNo = 2 =>
             /\ \A i \in 1..Len(issued) : issued[i].call = 1 => issued[i].ok
             /\ InPlace(VersionPrefix)
             /\ (upc = "done" /\ uerr # "") =>
                  result = <<"could not upload latest release artifacts", uerr>>
        /\ (upc = "done" /\ result = <<>>) =>
             /\ callNo = 2
             /\ uerr = ""
             /\ \A i \in 1..Len(issued) : issued[i].ok
             /\ InPlace(VersionPrefix)
             /\ InPlace(latest)

\* UploadLatest returned the error of a "latest" upload whose copy failed,
\* after a version upload that stored its files
C12_Witness ==
    /\ caller = "UploadLatest"
    /\ upc = "done"
    /\ callNo = 2
    /\ artifacts # <<>>
    /\ result = <<"could not upload latest release artifacts", "failed to upload artifacts">>
    /\ IssuedBy(1) # <<>>
    /\ \E i \in 1..Len(issued) : issued[i].call = 2 /\ ~issued[i].ok
    /\ InPlace(VersionPrefix)
    /\ ~InPlace(latest)

\* the listed files some element of the metadata list is keyed to
FilesWithMetadata ==
    {f \in {Paths(artifacts)[k] : k \in 1..Len(artifacts)} :
        \E i \in 1..Len(metadata) : StrippedOnce(metadata[i].Path) = f}

FilesWithoutMetadata ==
    {Paths(artifacts)[k] : k \in 1..Len(artifacts)} \ FilesWithMetadata

\* C16: when metadata is provided, the files that have metadata entries
\* are copied one by one with aws s3 cp, and the files without metadata
\* entries are still synced in bulk with aws s3 sync.
C16_UnindexedSyncedInBulk ==
    (metadata # <<>> /\ UploadReturnedNil) =>
        /\ \A f \in FilesWithMetadata :
             \E i \in 1..Len(issued) :
                 /\ issued[i].call = callNo
                 /\ issued[i].cmd.kind = "cp"
                 /\ issued[i].cmd.src = f
        /\ FilesWithoutMetadata # {} =>
             \E i \in 1..Len(issued) :
                 /\ issued[i].call = callNo
                 /\ issued[i].cmd.kind = "sync"

\* the errors of the steps that come before any transfer
StepErrors ==
    {"failed to get bucket name", "failed to get endpoint",
     "failed to list artifact files"}

\* nothing of the running upload call has reached the external tool
NothingIssued ==
    /\ IssuedBy(callNo) = <<>>
    /\ \A o \in bucket : o.dest.prefix # prefix

C17_State ==
    /\ upc \in {"bucket", "endpoint"} =>
         /\ NothingIssued
         /\ awsCli = <<>>
         /\ uentries = <<>>
    /\ uerr \in StepErrors =>
         /\ upc \in {"ret", "done"}
         /\ NothingIssued
         /\ upc = "done" => result = <<WrapMessage(caller, callNo), uerr>>
    /\ uerr = "failed to list artifact files" => metadata # <<>>

C17_Step ==
    /\ upc = "bucket" => upc' \in {"bucket", "endpoint", "ret"}
    /\ (upc' = "endpoint" /\ upc # "endpoint") => upc = "bucket"
    /\ (upc' \in {"list", "loop", "sync"} /\ upc \notin {"list", "loop", "sync"})
         => upc = "endpoint"
    /\ (uerr' = "failed to get bucket name" /\ uerr # uerr') => upc = "bucket"
    /\ (uerr' = "failed to get endpoint" /\ uerr # uerr') => upc = "endpoint"
    /\ (uerr' = "failed to list artifact files" /\ uerr # uerr') => upc = "list"

\* C17: an upload call resolves the bucket name first and the endpoint
\* second, before building, listing or issuing anything; a failure to read
\* either secret, or of the listing in per-file mode, returns the error
\* naming that step, wrapped by the caller, with no sync or copy issued by
\* that call.
C17_SecretsFirstNoInvocation == []C17_State /\ [][C17_Step]_vars

\* the "latest" upload of UploadLatest failed to list the files after the
\* version upload copied them: the second call issued nothing
C17_Witness ==
    /\ caller = "UploadLatest"
    /\ upc = "done"
    /\ callNo = 2
    /\ uerr = "failed to list artifact files"
    /\ IssuedBy(1) # <<>>
    /\ IssuedBy(2) = <<>>
    /\ result = <<"could not upload latest release artifacts",
                  "failed to list artifact files">>

(***************************************************************************)
(* Properties of Ghrelease                                                 *)
(***************************************************************************)
\* the With... calls that were WithTag
TagCalls == SelectSeq(chained, LAMBDA c : c.op = "WithTag")

\* WithTag was never called, or its last call passed the empty string
TagNotSet == TagCalls = <<>> \/ TagCalls[Len(TagCalls)].tag = ""

UploadCalled == gpc # "chain"

\* C10: Upload on an instance whose tag is not set returns the "no tag
\* set" error without listing, flattening or invoking the release upload;
\* on an instance whose tag is set it never returns that error.
C10_NoTagNoUpload ==
    UploadCalled =>
        /\ TagNotSet =>
            /\ gpc = "done"
            /\ gerr = "no tag set: call WithTag before Upload"
            /\ listings = 0
            /\ ~flattened
            /\ released = <<>>
        /\ ~TagNotSet => gerr # "no tag set: call WithTag before Upload"

\* Upload has returned on an instance with WithFlatten chained and the tag
\* set and then emptied again
C10_Witness ==
    /\ gpc = "done"
    /\ Assets # <<>>
    /\ DoFlatten
    /\ Len(TagCalls) = 2
    /\ TagCalls[1].tag = "nightly"
    /\ TagCalls[2].tag = ""
    /\ gerr = "no tag set: call WithTag before Upload"


\* WithFlatten is among the With... calls made before Upload
FlattenCalled == \E i \in 1..Len(chained) : chained[i].op = "WithFlatten"

\* the file arguments of the release upload of a directory whose top-level
\* entries have the given names
DistArgs(names) == {DistPath(n) : n \in names}

\* C11: Upload uploads the flattened form of the assets if and only if
\* WithFlatten was called before Upload, wherever it stands relative to
\* WithTag; otherwise it uploads the assets directory as given.
C11_FlattenIffWithFlatten ==
    (UploadCalled /\ ~TagNotSet) =>
        /\ flattened <=> FlattenCalled
        /\ IF FlattenCalled
           THEN gdist \in Listings(FlattenNameOsArch(Assets))
           ELSE gdist = Assets
        /\ \A i \in 1..Len(released) :
             {released[i].args.files[k] : k \in 1..Len(released[i].args.files)}
               = IF FlattenCalled
                 THEN DistArgs({e.name : e \in FlattenNameOsArch(Assets)})
                 ELSE DistArgs({Assets[k].segs[1] : k \in 1..Len(Assets)})

\* WithFlatten was chained after WithTag, and Upload released the flattened
\* name of an os/arch/filename asset
C11_Witness ==
    /\ gpc = "done"
    /\ gerr = ""
    /\ Len(chained) = 2
    /\ chained[1].op = "WithTag"
    /\ chained[2].op = "WithFlatten"
    /\ Len(Assets) = 1
    /\ Assets[1].segs = << <<"a">>, <<"b", "-", "c">>, <<"x">> >>
    /\ Len(released) = 1
    /\ released[1].args.files = << DistPath(<<"x", "-", "a", "-", "b", "-", "c">>) >>


\* the position in the listing of dist of the first file under the
\* top-level entry a file argument names
FirstUnder(arg) ==
    CHOOSE k \in 1..Len(gdist) :
        /\ DistPath(gdist[k].segs[1]) = arg
        /\ \A j \in 1..(k - 1) : DistPath(gdist[j].segs[1]) # arg

\* C18: an Upload that returns nil has issued exactly one release upload,
\* for the configured tag and repo with --clobber, whose file arguments
\* are the top-level entries of the (possibly flattened) directory, each
\* once as /dist/<entry>, in listing order; there is no invocation per
\* file.
C18_OneReleaseUpload ==
    (gpc = "done" /\ gerr = "") =>
        /\ Len(released) = 1
        /\ listings = 1
        /\ released[1].ok
        /\ LET args == released[1].args
               n == Len(args.files)
           IN
           /\ args.cmd = <<"gh", "release", "upload">>
           /\ args.tag = Tag
           /\ args.repo = Repo
           /\ args.clobber
           /\ {args.files[i] : i \in 1..n}
                = {DistPath(gdist[k].segs[1]) : k \in 1..Len(gdist)}
           /\ \A i, j \in 1..n : i # j => args.files[i] # args.files[j]
           /\ \A i, j \in 1..n :
                i < j => FirstUnder(args.files[i]) < FirstUnder(args.files[j])

\* an unflattened Upload of two files under the same top-level directory
\* and returned nil: the one release upload names /dist/a once
C18_Witness ==
    /\ gpc = "done"
    /\ gerr = ""
    /\ ~DoFlatten
    /\ Len(Assets) = 2
    /\ Assets[1].segs[1] = <<"a">>
    /\ Assets[2].segs[1] = <<"a">>
    /\ Len(released) = 1
    /\ released[1].args.files = << <<"/", "d", "i", "s", "t", "/", "a">> >>


\* C19: two os/arch/filename paths with different triples never get the
\* same flattened name, so the output of a flatten that returned has one
\* entry for each such input file.
C19_DistinctTriplesDistinctNames ==
    FlattenReturned =>
        /\ \A j, k \in Depth3Files :
             build[j].segs # build[k].segs =>
                 NewName(build[j].segs[3], build[j].segs[1], build[j].segs[2])
                   # NewName(build[k].segs[3], build[k].segs[1], build[k].segs[2])
        /\ Cardinality({e.name : e \in dist}) = Cardinality(Depth3Files)

\* C20: the normalisation of buildMetadataIndex is idempotent: normalising
\* a key of the index gives that key again.
C20_NormalisationIdempotent ==
    \A k \in DOMAIN idx : PathKey(k) = k


(***************************************************************************)
(* Properties of golangcilint                                              *)
(***************************************************************************)
HasEq(e) == \E i \in 1..Len(e) : e[i] = "="

\* the position of the first "=" of an entry that has one
FirstEq(e) ==
    CHOOSE i \in 1..Len(e) : e[i] = "=" /\ \A j \in 1..(i - 1) : e[j] # "="

\* the entry has no "=", or nothing before its first "="
Malformed(e) == ~HasEq(e) \/ FirstEq(e) = 1

KeyOf(e) == SubSeq(e, 1, FirstEq(e) - 1)

ValueOf(e) == SubSeq(e, FirstEq(e) + 1, Len(e))

\* C15: Lint and Check fail with the "invalid env var" error, without
\* running the linter, if and only if some EnvVars entry has no "=" or an
\* empty key before its first "="; otherwise every entry is split at its
\* first "=" only and applied in list order, a later entry overriding an
\* earlier one with the same key; on the error Lint returns no directory
\* and Check the empty string.
C15_EnvVars ==
    lpc = "done" =>
        IF \E i \in 1..Len(EnvVars) : Malformed(EnvVars[i])
        THEN /\ Len(lerr) = 3
             /\ lerr[1] = "could not create lint container"
             /\ lerr[2] = "invalid env var"
             /\ Malformed(lerr[3])
             /\ lexec = <<>>
             /\ lret = IF lop = "Lint" THEN "nil" ELSE ""
        ELSE /\ Len(lerr) # 3
             /\ Len(lexec) = 1
             /\ DOMAIN lexec[1].env = {KeyOf(EnvVars[i]) : i \in 1..Len(EnvVars)}
             /\ \A k \in DOMAIN lexec[1].env :
                  lexec[1].env[k]
                    = ValueOf(EnvVars[Last({i \in 1..Len(EnvVars) : KeyOf(EnvVars[i]) = k})])

\* Check ran the linter with A=1, A=b=c, B= given: A is b=c and B is empty
C15_Witness ==
    /\ lpc = "done"
    /\ lop = "Check"
    /\ EnvVars = << <<"A", "=", "1">>, <<"A", "=", "b", "=", "c">>, <<"B", "=">> >>
    /\ lerr = <<>>
    /\ Len(lexec) = 1
    /\ lexec[1].env[<<"A">>] = <<"b", "=", "c">>
    /\ lexec[1].env[<<"B">>] = <<>>


(***************************************************************************)
(* Properties of checksum                                                  *)
(***************************************************************************)
\* C14: every file of the input directory, at any depth, is still in the
\* returned directory and has a sibling <file>.sha256 there.
C14_EveryFileHasSibling ==
    cpc = "done" =>
        \A k \in 1..Len(cdir) :
            /\ JoinPath(cdir[k].segs) \in DOMAIN cout
            /\ JoinPath(cdir[k].segs) \o Sha256Suffix \in DOMAIN cout


C21_State ==
    /\ DoFlatten <=> FlattenCalled
    /\ Tag = IF TagCalls = <<>> THEN "" ELSE TagCalls[Len(TagCalls)].tag

\* what one With... call leaves alone
C21_Step ==
    /\ Token' = Token
    /\ Repo' = Repo
    /\ Assets' = Assets
    /\ DoFlatten => DoFlatten'
    /\ (Len(chained') = Len(chained) + 1
        /\ chained'[Len(chained')].op = "WithFlatten") => Tag' = Tag
    /\ (Len(chained') = Len(chained) + 1
        /\ chained'[Len(chained')].op = "WithTag") => DoFlatten' = DoFlatten

\* C21: after any sequence of WithFlatten and WithTag calls, DoFlatten is
\* true iff WithFlatten was called at least once and is never reset, Tag is
\* the argument of the most recent WithTag (empty if none, un-set by a later
\* WithTag("")); WithFlatten leaves Tag alone, WithTag leaves DoFlatten
\* alone, neither changes Token, Repo or Assets, so the instance depends
\* only on these facts and not on the order of the two kinds of call.
C21_BuilderFields == []C21_State /\ [][C21_Step]_vars

\* WithTag("v1.0.0"), WithFlatten, WithTag(""): flattening is on and the
\* tag is un-set
C21_Witness ==
    /\ Len(chained) = 3
    /\ chained[1] = [op |-> "WithTag", tag |-> "v1.0.0"]
    /\ chained[2].op = "WithFlatten"
    /\ chained[3] = [op |-> "WithTag", tag |-> ""]
    /\ DoFlatten
    /\ Tag = ""
    /\ Assets # <<>>

====
